---- MODULE Spec2Model ----
(***************************************************************************)
(* Model of the coordination core of marplemr/core:                        *)
(*   - the locator (node directory): Announce, Resolve and the janitor     *)
(*     (src/insonmnia/locator/server.go);                                  *)
(*   - the hub's ledger watcher: WaitForDealCreated / findDeals /          *)
(*     findDealOnce, WaitForDealClosed and GetDeal (the `package hub`      *)
(*     part of src/insonmnia/hardware/gpu/device.go).                      *)
(* Each part has a specification of its own (SpecLocator, SpecEth,         *)
(* SpecTracker, SpecDeal) that leaves the variables of the others at rest. *)
(* Time is a discrete clock `now`.  A ticker fires at its tick instant:    *)
(* the clock does not advance while a tick or a context deadline is due.   *)
(***************************************************************************)
EXTENDS Integers, Sequences, FiniteSets, TLC

\* ------------------------------------------------------------------ bounds
\* The clock runs from 0 to MaxTime.
MaxTime == 5
\* LocatorConfig.NodeTTL and LocatorConfig.CleanupPeriod, in clock units.
NodeTTL == 2
CleanupPeriod == 2
\* eth.timeout (NewETH's parameter) ranges over 1..MaxTimeout clock units.
MaxTimeout == 4
\* The clock of the deal tracker runs from 0 to MaxTrackTime.
MaxTrackTime == 10
\* At most MaxAccepts calls of AcceptDeal reach the ledger.
MaxAccepts == 2

\* The poll period of findDeals: time.NewTicker(3 * time.Second).
FindTick == 3

\* Horizon of the clock where the locator is followed lock by lock.
MaxLockTime == 3

\* ------------------------------------------------------------ value domains
\* common.Address values that peers may hold; ZeroAddr is common.Address{}.
ZeroAddr == "0x00"
Addrs == {"0xa1", "0xa2"}

\* Endpoint lists carried by pb.AnnounceRequest.IpAddr.
IpLists == {<< >>, <<"ip1">>}

\* gRPC call contexts seen by extractEthAddr: no peer attached, a peer whose
\* AuthInfo is util.EthAuthInfo (with its Wallet), a peer with another AuthInfo.
Ctxs ==
    {[hasPeer |-> FALSE, auth |-> "none", Wallet |-> ZeroAddr]}
    \cup {[hasPeer |-> TRUE, auth |-> "EthAuthInfo", Wallet |-> a] : a \in Addrs}
    \cup {[hasPeer |-> TRUE, auth |-> "TLSInfo", Wallet |-> ZeroAddr]}

\* Strings a pb.ResolveRequest.EthAddr may carry.
AddrStrings == {"0xa1", "0xA1", "a2", "xyz"}

\* common.IsHexAddress on the sample strings: "xyz" is no hex address.
IsHexAddress(s) == s \in {"0xa1", "0xA1", "a2"}

\* common.HexToAddress: case-insensitive, optional 0x prefix.
HexToAddress(s) ==
    CASE s \in {"0xa1", "0xA1"} -> "0xa1"
      [] s = "a2" -> "0xa2"
      [] OTHER -> ZeroAddr

\* util.PubKeyToAddr(e.key.PublicKey).Hex(): the hub's own account.
Self == "hub"

\* Counterparties (DealRequest.Order.ByuerID) and specification hashes.
Buyers == {"b1", "b2"}
Hashes == {"h1", "h2"}

\* Deal ids known to the ledger, and pb.DealStatus.
DealIds == {1, 2}
Statuses == {"PENDING", "ACCEPTED", "CLOSED"}

\* A nil *pb.Deal.
NoDeal == [id |-> 0, status |-> "NONE", hash |-> "", buyer |-> "", supplier |-> ""]

\* The value a missing map key reads as (a nil *node).
NoNode == [ethAddr |-> ZeroAddr, ipAddr |-> << >>, ts |-> -1]

VARIABLES
    db,         \* Locator.db: a map from address to node (its domain: the keys present)
    now,        \* the wall clock (time.Now())
    nextTick,   \* instant of the janitor ticker's next tick
    jpc,        \* janitor position: "wait" (in select) | "clean" (tick received,
                \* deadline computed, at Lock)
    deadline,   \* traverseAndClean's local `deadline`
    last,       \* the last completed operation, with its inputs and result
    annTs,      \* history: time of the most recent successful Announce per address, -1 if none
    annIps,     \* history: endpoint list of the most recent successful Announce per address
    renewed,     \* history, per address: the most recent successful Announce replaced
                \* a record that was then older than NodeTTL
    swept       \* history: the cutoff of the latest sweep that has finished; before
                \* the first, the cutoff of a sweep at instant 0 (the map was empty)

lvars == <<db, nextTick, jpc, deadline, last, annTs, annIps, renewed, swept>>

VARIABLES
    deals,      \* the ledger: deal id -> deal info, NoDeal while the deal does not exist
    order,      \* the ledger: the order in which its deal-list queries report ids
    timeout,    \* eth.timeout
    cancelled,  \* whether e.ctx (the hub's context) has been cancelled
    fpc,        \* findDeals position: "idle" | "list" (awaits GetOpenedDeal) | "info"
                \* (awaits GetDealInfo) | "select" (blocked in select) | "done"
    fctxErr,    \* Err() of findDeals' derived context: "nil" | "Canceled" | "DeadlineExceeded"
    ftick,      \* instant of the next tick of findDeals' ticker
    fstart,     \* instant at which the pending findDeals was called
    fres,       \* what findDeals returned: the deal and the error
    fcall       \* the call: its request and the ids its probe has still to range
                \* over, and as history the ticks received, the ids that matched
                \* at the call, whether a query of the first probe failed and
                \* whether one of the latest probe did

evars == <<deals, order, timeout, cancelled, fpc, fctxErr, ftick, fstart, fres, fcall>>

VARIABLES
    wpc,        \* WaitForDealClosed position: "idle" | "select" (blocked in select) |
                \* "list" (awaits GetClosedDeal) | "info" (awaits GetDealInfo) | "done"
    wctxErr,    \* Err() of the ctx given to WaitForDealClosed: "nil" | "Canceled"
    wtick,      \* instant of the next tick of WaitForDealClosed's ticker
    wres,       \* what WaitForDealClosed returned (err), and when (at)
    wcall,      \* the call: its request and the ids its poll has still to range
                \* over, and as history the instant of the call, the ticks
                \* received and the failures met by its latest poll
    gres,       \* what the last GetDeal returned: the deal and the error
    gcall,      \* history: the argument of the last GetDeal and what the ledger answered
    ares,       \* what the last AcceptDeal returned (its error)
    accepts     \* history: the ledger's log of the accept actions invoked on it, each
                \* with the key, the id and the error the ledger answered

tvars == <<wpc, wctxErr, wtick, wres, wcall, gres, gcall, ares, accepts>>

VARIABLES
    mx,         \* Locator.mx: the goroutine that holds the mutex, "free" if none
    pc,         \* position of each goroutine that uses Locator.mx
    loc         \* local variables of each such goroutine

kvars == <<mx, pc, loc>>

vars == <<now, lvars, evars, tvars, kvars>>

\* ------------------------------------------------------------------ helpers
NoCtx == [hasPeer |-> FALSE, auth |-> "none", Wallet |-> ZeroAddr]

\* The shape of `last`; err = "nil" is Go's nil error.
NoOp == [op |-> "none", ctx |-> NoCtx, ips |-> << >>, addrStr |-> "", err |-> "nil",
         out |-> << >>]

Has(d, a) == a \in DOMAIN d

\* Mutant: the AuthInfo type switch is dropped, any peer is taken for a wallet holder.
extractEthAddr_AnyPeer(ctx) ==
    IF ~ctx.hasPeer THEN [addr |-> ZeroAddr, err |-> "DataLoss"]
    ELSE [addr |-> ctx.Wallet, err |-> "nil"]

\* Mutant: the identity is not read from the peer's credential (one fixed account).
extractEthAddr_Fixed(ctx) ==
    IF ~ctx.hasPeer THEN [addr |-> ZeroAddr, err |-> "DataLoss"]
    ELSE IF ctx.auth = "EthAuthInfo" THEN [addr |-> "0xa1", err |-> "nil"]
    ELSE [addr |-> ZeroAddr, err |-> "Unauthenticated"]

\* extractEthAddr (server.go:86-98): the wallet of an EthAuthInfo peer, else an error.
extractEthAddr(ctx) ==
    IF ~ctx.hasPeer THEN [addr |-> ZeroAddr, err |-> "DataLoss"]
    ELSE IF ctx.auth = "EthAuthInfo" THEN [addr |-> ctx.Wallet, err |-> "nil"]
    ELSE [addr |-> ZeroAddr, err |-> "Unauthenticated"]

\* Mutant: an Announce appends its endpoints to those of the record it finds.
putAnnounce_Merge(d, n, t) ==
    [a \in DOMAIN d \cup {n.ethAddr} |->
        IF a = n.ethAddr
        THEN [ethAddr |-> n.ethAddr,
              ipAddr |-> IF Has(d, a) THEN d[a].ipAddr \o n.ipAddr ELSE n.ipAddr,
              ts |-> t]
        ELSE d[a]]

\* Mutant: an Announce leaves a record it finds in place (first write wins).
putAnnounce_KeepFirst(d, n, t) ==
    [a \in DOMAIN d \cup {n.ethAddr} |->
        IF a = n.ethAddr /\ ~Has(d, a)
        THEN [ethAddr |-> n.ethAddr, ipAddr |-> n.ipAddr, ts |-> t]
        ELSE d[a]]

\* Mutant: an Announce replaces the endpoints but keeps the last-seen it finds.
putAnnounce_NoRefresh(d, n, t) ==
    [a \in DOMAIN d \cup {n.ethAddr} |->
        IF a = n.ethAddr
        THEN [ethAddr |-> n.ethAddr, ipAddr |-> n.ipAddr,
              ts |-> IF Has(d, a) THEN d[a].ts ELSE t]
        ELSE d[a]]

\* Mutant: a node that replaces a record is stamped before that record's last-seen.
putAnnounce_Backdated(d, n, t) ==
    [a \in DOMAIN d \cup {n.ethAddr} |->
        IF a = n.ethAddr
        THEN [ethAddr |-> n.ethAddr, ipAddr |-> n.ipAddr,
              ts |-> IF Has(d, a) THEN d[a].ts - 1 ELSE t]
        ELSE d[a]]

\* putAnnounce (server.go:100-106): under the lock, stamp the node and store it.
putAnnounce(d, n, t) ==
    [a \in DOMAIN d \cup {n.ethAddr} |->
        IF a = n.ethAddr THEN [ethAddr |-> n.ethAddr, ipAddr |-> n.ipAddr, ts |-> t]
        ELSE d[a]]

\* Mutant: the `ok` of the map lookup is not checked.
getResolve_NoOkCheck(d, ethAddr) ==
    [n |-> IF Has(d, ethAddr) THEN d[ethAddr] ELSE NoNode, err |-> "nil"]

\* getResolve (server.go:108-118): under the lock, look the key up.
getResolve(d, ethAddr) ==
    IF Has(d, ethAddr) THEN [n |-> d[ethAddr], err |-> "nil"]
    ELSE [n |-> NoNode, err |-> "errNodeNotFound"]

\* Mutant: the expiry comparison is off by one clock unit.
Expired_OffByOne(n, dl) == n.ts + 1 < dl

\* node.ts.Before(deadline) (server.go:144).
Expired(n, dl) == n.ts < dl

\* Mutant: the scan deletes every entry.
cleaned_All(d, dl) == << >>

\* Mutant: the scan deletes nothing.
cleaned_Nothing(d, dl) == d

\* The scan of traverseAndClean (server.go:143-150): delete the expired keys.
cleaned(d, dl) ==
    [a \in {k \in DOMAIN d : ~Expired(d[k], dl)} |-> d[a]]

\* delete(l.db, addr) (server.go:145).
deleted(d, addr) == [a \in DOMAIN d \ {addr} |-> d[a]]

\* The orders in which `for addr, node := range l.db` may visit the keys.
RangeOrders(d) ==
    {q \in [1..Cardinality(DOMAIN d) -> DOMAIN d] :
        \A i, j \in DOMAIN q : i # j => q[i] # q[j]}

\* The loop of traverseAndClean (server.go:143-150) over the keys in the order
\* given, with its counters del and keep.
RECURSIVE rangeAndClean(_, _, _)
rangeAndClean(d, keys, dl) ==
    IF keys = << >> THEN [db |-> d, del |-> 0, keep |-> 0]
    ELSE IF Expired(d[Head(keys)], dl)
         THEN LET r == rangeAndClean(deleted(d, Head(keys)), Tail(keys), dl) IN
              [db |-> r.db, del |-> r.del + 1, keep |-> r.keep]
         ELSE LET r == rangeAndClean(d, Tail(keys), dl) IN
              [db |-> r.db, del |-> r.del, keep |-> r.keep + 1]

\* traverseAndClean's critical section (server.go:135-153): the map it leaves
\* and the counters it logs.
traverseAndClean(d, keys, dl) ==
    [total |-> Cardinality(DOMAIN d),
     db |-> rangeAndClean(d, keys, dl).db,
     del |-> rangeAndClean(d, keys, dl).del,
     keep |-> rangeAndClean(d, keys, dl).keep]

\* Mutant: the deadline is taken ahead of the clock (Add(NodeTTL)).
sweepDeadline_Ahead(t) == t + NodeTTL

\* deadline := time.Now().Add(-1 * l.conf.NodeTTL) (server.go:133).
sweepDeadline(t) == t - NodeTTL

\* The ticker after a receive at instant t (time.NewTicker, server.go:121): the
\* channel buffers one tick, the ticks that found it full were dropped.
tickAfter(next, t) == next + CleanupPeriod * (((t - next) \div CleanupPeriod) + 1)

\* ------------------------------------------------------------------ locator
\* The call history before any call of findDeals.
NoCall == [addr |-> "", hash |-> "", ticks |-> 0, matchAtCall |-> {},
           probe0Ok |-> FALSE, lastFailed |-> FALSE, ids |-> << >>]

\* What findDeals has returned before it has returned.
NoRes == [deal |-> NoDeal, err |-> "nil"]

\* The watcher with an empty ledger and no call made.
EthAtRest ==
    /\ deals = [i \in DealIds |-> NoDeal]
    /\ order = << >>
    /\ cancelled = FALSE
    /\ fpc = "idle"
    /\ fctxErr = "nil"
    /\ ftick = 0
    /\ fstart = 0
    /\ fres = NoRes
    /\ fcall = NoCall

\* The call before any call of WaitForDealClosed: its arguments, the ids its
\* loop has still to range over, and as history the instant of the call, the
\* ticks received and the failures met by its latest poll.
NoWatch == [dealID |-> "", buyer |-> "", start |-> 0, ticks |-> 0,
            listFailed |-> FALSE, infoFailed |-> FALSE, ids |-> << >>]

\* What WaitForDealClosed has returned before it has returned.
NoWres == [err |-> "nil", at |-> 0]

\* What GetDeal has returned before it has been called.
NoGres == [deal |-> NoDeal, err |-> "nil"]
NoGet == [id |-> "", fetched |-> FALSE, info |-> NoDeal]

\* No WaitForDealClosed pending and no GetDeal made.
TrackerAtRest ==
    /\ wpc = "idle"
    /\ wctxErr = "nil"
    /\ wtick = 0
    /\ wres = NoWres
    /\ wcall = NoWatch
    /\ gres = NoGres
    /\ gcall = NoGet
    /\ ares = "nil"
    /\ accepts = << >>

\* The goroutines that take Locator.mx: two Announce handlers, a Resolve
\* handler and the janitor (cleanExpiredNodes).
Procs == {"A1", "A2", "R", "J"}

\* The locals of a goroutine before its call: the node it holds (n), the
\* request string (req), what it returned (err, out), the janitor's deadline;
\* and as history the endpoint list on record at a lookup (seen) and the
\* identities announced since the janitor computed its deadline, or since
\* Resolve's lookup released the mutex (since).
NoLoc == [n |-> NoNode, req |-> "", err |-> "nil", out |-> << >>, deadline |-> 0,
          seen |-> << >>, since |-> {}]

\* Nobody holds or wants the mutex.
LockAtRest ==
    /\ mx = "free"
    /\ pc = [p \in Procs |-> "idle"]
    /\ loc = [p \in Procs |-> NoLoc]

\* The directory as NewLocator leaves it.
LocatorAtStart ==
    /\ db = << >>
    /\ nextTick = CleanupPeriod
    /\ jpc = "wait"
    /\ deadline = 0
    /\ last = NoOp
    /\ annTs = [a \in Addrs |-> -1]
    /\ annIps = [a \in Addrs |-> << >>]
    /\ renewed = [a \in Addrs |-> FALSE]
    /\ swept = 0 - NodeTTL

InitLocator ==
    /\ now = 0
    /\ LocatorAtStart
    /\ EthAtRest
    /\ TrackerAtRest
    /\ LockAtRest
    /\ timeout = 1

\* Locator.Announce (server.go:45-60).
Announce(ctx, req) ==
    LET r == extractEthAddr(ctx) IN
    /\ IF r.err # "nil"
       THEN /\ UNCHANGED <<db, annTs, annIps, renewed>>
       ELSE /\ db' = putAnnounce(db, [ethAddr |-> r.addr, ipAddr |-> req.IpAddr], now)
            /\ annTs' = [annTs EXCEPT ![r.addr] = now]
            /\ annIps' = [annIps EXCEPT ![r.addr] = req.IpAddr]
            /\ renewed' = [renewed EXCEPT ![r.addr] = Has(db, r.addr) /\ db[r.addr].ts + NodeTTL < now]
    /\ last' = [NoOp EXCEPT !.op = "Announce", !.ctx = ctx, !.ips = req.IpAddr, !.err = r.err]
    /\ UNCHANGED <<now, nextTick, jpc, deadline, swept>>
    /\ UNCHANGED <<evars, tvars, kvars>>

\* Locator.Resolve up to getResolve's return (server.go:62-72, 108-118): the
\* string is validated, the key looked up under the lock and the lock
\* released; an error returns at once, a node found is held for the reply.
Resolve(req) ==
    /\ pc["R"] = "idle"
    /\ IF ~IsHexAddress(req.EthAddr)
       THEN /\ last' = [NoOp EXCEPT !.op = "Resolve", !.addrStr = req.EthAddr,
                                    !.err = "invalid ethaddress"]
            /\ UNCHANGED <<pc, loc>>
       ELSE LET r == getResolve(db, HexToAddress(req.EthAddr)) IN
            IF r.err # "nil"
            THEN /\ last' = [NoOp EXCEPT !.op = "Resolve", !.addrStr = req.EthAddr,
                                         !.err = r.err]
                 /\ UNCHANGED <<pc, loc>>
            ELSE /\ last' = [NoOp EXCEPT !.op = "getResolve", !.addrStr = req.EthAddr]
                 /\ pc' = [pc EXCEPT !["R"] = "read"]
                 /\ loc' = [loc EXCEPT !["R"] = [NoLoc EXCEPT !.n = r.n,
                                                              !.req = req.EthAddr]]
    /\ UNCHANGED <<db, now, nextTick, jpc, deadline, annTs, annIps, renewed, swept>>
    /\ UNCHANGED <<evars, tvars, mx>>

\* Mutant: the reply is built from the record the map holds at the time of the
\* reply.
Resolve_Reply_Live ==
    LET a == HexToAddress(loc["R"].req) IN
    /\ pc["R"] = "read"
    /\ last' = [NoOp EXCEPT !.op = "Resolve", !.addrStr = loc["R"].req,
                            !.err = IF Has(db, a) THEN "nil" ELSE "errNodeNotFound",
                            !.out = IF Has(db, a) THEN db[a].ipAddr ELSE << >>]
    /\ pc' = [pc EXCEPT !["R"] = "idle"]
    /\ loc' = [loc EXCEPT !["R"] = NoLoc]
    /\ UNCHANGED <<db, now, nextTick, jpc, deadline, annTs, annIps, renewed, swept>>
    /\ UNCHANGED <<evars, tvars, mx>>

\* Resolve builds its reply from the node it holds, the lock long released
\* (server.go:74: &pb.ResolveReply{IpAddr: n.ipAddr}).
Resolve_Reply ==
    /\ pc["R"] = "read"
    /\ last' = [NoOp EXCEPT !.op = "Resolve", !.addrStr = loc["R"].req,
                            !.out = loc["R"].n.ipAddr]
    /\ pc' = [pc EXCEPT !["R"] = "idle"]
    /\ loc' = [loc EXCEPT !["R"] = NoLoc]
    /\ UNCHANGED <<db, now, nextTick, jpc, deadline, annTs, annIps, renewed, swept>>
    /\ UNCHANGED <<evars, tvars, mx>>

\* cleanExpiredNodes receives a tick (server.go:124-127) and traverseAndClean
\* reads the clock for its deadline (server.go:133), before it asks for the
\* lock. The tick was received at some instant r from the tick's instant on,
\* the clock is read at r or later: the ticker's next tick is the first one
\* after r, so that a tick falling between the receive and the clock reading
\* stays buffered for the next round.
SweepStart(r) ==
    /\ jpc = "wait"
    /\ now >= nextTick
    /\ nextTick' = tickAfter(nextTick, r)
    /\ deadline' = sweepDeadline(now)
    /\ jpc' = "clean"
    /\ last' = [NoOp EXCEPT !.op = "SweepStart"]
    /\ UNCHANGED <<db, now, annTs, annIps, renewed, swept>>
    /\ UNCHANGED <<evars, tvars, kvars>>

\* traverseAndClean's critical section (server.go:135-153), entered when the
\* lock is granted; `deadline` goes out of scope on return.
SweepClean ==
    /\ jpc = "clean"
    /\ db' = cleaned(db, deadline)
    /\ jpc' = "wait"
    /\ deadline' = 0
    /\ swept' = deadline
    /\ last' = [NoOp EXCEPT !.op = "Sweep"]
    /\ UNCHANGED <<now, nextTick, annTs, annIps, renewed>>
    /\ UNCHANGED <<evars, tvars, kvars>>

\* The clock advances whatever the handlers and the janitor are doing: the
\* janitor may be late at its tick, at its clock reading and at its Lock.
Advance ==
    /\ now < MaxTime
    /\ now' = now + 1
    /\ last' = [NoOp EXCEPT !.op = "Advance"]
    /\ UNCHANGED <<db, nextTick, jpc, deadline, annTs, annIps, renewed, swept>>
    /\ UNCHANGED <<evars, tvars, kvars>>

NextLocator ==
    \/ \E ctx \in Ctxs, ips \in IpLists : Announce(ctx, [IpAddr |-> ips])
    \/ \E s \in AddrStrings : Resolve([EthAddr |-> s])
    \/ Resolve_Reply
    \/ \E r \in nextTick..now : SweepStart(r)
    \/ SweepClean
    \/ Advance

SpecLocator == InitLocator /\ [][NextLocator]_vars

\* ------------------------------------------------- locator, lock by lock
\* The same handlers step by step: each goroutine computes what it computes
\* before Locator.mx (call), takes the mutex (Lock), and runs its critical
\* section up to the deferred Unlock in one step.
Announcers == {"A1", "A2"}

\* What each Announce handler sends, and the callers it may have: both serve
\* the holder of "0xa1", A1 also a peer without a wallet, A2 also the holder
\* of "0xa2".
IpOf == [p \in Announcers |-> IF p = "A1" THEN <<"ip1">> ELSE <<"ip2">>]
CtxsOf(p) ==
    {[hasPeer |-> TRUE, auth |-> "EthAuthInfo", Wallet |-> "0xa1"]}
    \cup (IF p = "A1" THEN {[hasPeer |-> TRUE, auth |-> "TLSInfo", Wallet |-> ZeroAddr]}
          ELSE {[hasPeer |-> TRUE, auth |-> "EthAuthInfo", Wallet |-> "0xa2"]})
LockStrings == {"0xa1", "xyz"}

\* Whether the janitor is between computing its deadline and its Unlock.
Sweeping == pc["J"] \in {"lock", "cs"}

\* Locator.Announce up to putAnnounce's Lock (server.go:45-57, 101): the
\* identity is extracted and a fresh node allocated; an extraction error returns.
AnnounceCall(p, ctx) ==
    LET r == extractEthAddr(ctx) IN
    /\ pc[p] = "idle"
    /\ IF r.err # "nil"
       THEN /\ loc' = [loc EXCEPT ![p] = [NoLoc EXCEPT !.err = r.err]]
            /\ UNCHANGED pc
       ELSE /\ loc' = [loc EXCEPT ![p] = [NoLoc EXCEPT !.n =
                          [ethAddr |-> r.addr, ipAddr |-> IpOf[p], ts |-> -1]]]
            /\ pc' = [pc EXCEPT ![p] = "lock"]
    /\ UNCHANGED <<now, lvars, evars, tvars, mx>>

\* Mutant: Lock does not wait for the mutex to be free.
Lock_NoExclusion(p) ==
    /\ pc[p] = "lock"
    /\ mx' = p
    /\ pc' = [pc EXCEPT ![p] = "cs"]
    /\ UNCHANGED <<now, lvars, evars, tvars, loc>>

\* l.mx.Lock() (server.go:101, 109, 135).
Lock(p) ==
    /\ pc[p] = "lock"
    /\ mx = "free"
    /\ mx' = p
    /\ pc' = [pc EXCEPT ![p] = "cs"]
    /\ UNCHANGED <<now, lvars, evars, tvars, loc>>

\* putAnnounce's critical section and deferred Unlock (server.go:102-105).
putAnnounceLocked(p) ==
    LET n == loc[p].n IN
    /\ p \in Announcers
    /\ pc[p] = "cs"
    /\ db' = putAnnounce(db, n, now)
    /\ annTs' = [annTs EXCEPT ![n.ethAddr] = db'[n.ethAddr].ts]
    /\ annIps' = [annIps EXCEPT ![n.ethAddr] = n.ipAddr]
    /\ mx' = "free"
    /\ pc' = [pc EXCEPT ![p] = "idle"]
    /\ loc' = [loc EXCEPT ![p] = NoLoc,
                          !["J"].since = IF Sweeping THEN @ \cup {n.ethAddr} ELSE @,
                          !["R"].since = IF pc["R"] = "read" THEN @ \cup {n.ethAddr} ELSE @]
    /\ UNCHANGED <<now, nextTick, jpc, deadline, last, renewed, swept, evars, tvars>>

\* Mutant: Resolve does not validate the string before the lookup.
ResolveCall_NoValidation(req) ==
    /\ pc["R"] = "idle"
    /\ loc' = [loc EXCEPT !["R"] = [NoLoc EXCEPT !.req = req.EthAddr]]
    /\ pc' = [pc EXCEPT !["R"] = "lock"]
    /\ UNCHANGED <<now, lvars, evars, tvars, mx>>

\* Locator.Resolve up to getResolve's Lock (server.go:62-69, 109): a string
\* that is no hex address returns an error at once.
ResolveCall(req) ==
    /\ pc["R"] = "idle"
    /\ IF ~IsHexAddress(req.EthAddr)
       THEN /\ loc' = [loc EXCEPT !["R"] = [NoLoc EXCEPT !.req = req.EthAddr,
                                                          !.err = "invalid ethaddress"]]
            /\ UNCHANGED pc
       ELSE /\ loc' = [loc EXCEPT !["R"] = [NoLoc EXCEPT !.req = req.EthAddr]]
            /\ pc' = [pc EXCEPT !["R"] = "lock"]
    /\ UNCHANGED <<now, lvars, evars, tvars, mx>>

\* getResolve's critical section and deferred Unlock (server.go:110-117); on
\* errNodeNotFound Resolve returns (server.go:70-72).
getResolveLocked ==
    LET a == HexToAddress(loc["R"].req)
        r == getResolve(db, a)
    IN
    /\ pc["R"] = "cs"
    /\ mx' = "free"
    /\ loc' = [loc EXCEPT !["R"].n = r.n, !["R"].err = r.err,
                          !["R"].seen = IF r.err = "nil" THEN annIps[a] ELSE << >>]
    /\ pc' = [pc EXCEPT !["R"] = IF r.err = "nil" THEN "read" ELSE "idle"]
    /\ UNCHANGED <<now, lvars, evars, tvars>>

\* Mutant: the reply is built from the record the map holds at the time of the
\* reply (the record Resolve found has been written in place meanwhile).
ResolveReply_Live ==
    LET a == HexToAddress(loc["R"].req) IN
    /\ pc["R"] = "read"
    /\ loc' = [loc EXCEPT !["R"].out = IF Has(db, a) THEN db[a].ipAddr ELSE << >>,
                          !["R"].n = NoNode]
    /\ pc' = [pc EXCEPT !["R"] = "idle"]
    /\ UNCHANGED <<now, lvars, evars, tvars, mx>>

\* Resolve builds its reply from the node it holds, the lock released
\* (server.go:74: &pb.ResolveReply{IpAddr: n.ipAddr}).
ResolveReply ==
    /\ pc["R"] = "read"
    /\ loc' = [loc EXCEPT !["R"].out = loc["R"].n.ipAddr, !["R"].n = NoNode]
    /\ pc' = [pc EXCEPT !["R"] = "idle"]
    /\ UNCHANGED <<now, lvars, evars, tvars, mx>>

\* cleanExpiredNodes receives a tick (server.go:124-127) and traverseAndClean
\* computes its deadline, up to its Lock (server.go:133-135).
SweepCall ==
    /\ pc["J"] = "idle"
    /\ now >= nextTick
    /\ nextTick' = tickAfter(nextTick, now)
    /\ loc' = [loc EXCEPT !["J"] = [NoLoc EXCEPT !.deadline = sweepDeadline(now)]]
    /\ pc' = [pc EXCEPT !["J"] = "lock"]
    /\ UNCHANGED <<now, db, jpc, deadline, last, annTs, annIps, renewed, swept, evars, tvars, mx>>

\* traverseAndClean's critical section and deferred Unlock (server.go:136-153).
traverseAndCleanLocked ==
    /\ pc["J"] = "cs"
    /\ db' = cleaned(db, loc["J"].deadline)
    /\ mx' = "free"
    /\ pc' = [pc EXCEPT !["J"] = "idle"]
    /\ loc' = [loc EXCEPT !["J"].deadline = 0]
    /\ UNCHANGED <<now, nextTick, jpc, deadline, last, annTs, annIps, renewed, swept, evars, tvars>>

\* The critical section of whichever goroutine holds the mutex.
Locked(p) ==
    \/ putAnnounceLocked(p)
    \/ (p = "R" /\ getResolveLocked)
    \/ (p = "J" /\ traverseAndCleanLocked)

\* The clock advances whatever the goroutines are doing.
AdvanceLock ==
    /\ now < MaxLockTime
    /\ now' = now + 1
    /\ UNCHANGED <<lvars, evars, tvars, kvars>>

InitLock ==
    /\ now = 0
    /\ LocatorAtStart
    /\ EthAtRest
    /\ TrackerAtRest
    /\ LockAtRest
    /\ timeout = 1

NextLock ==
    \/ \E p \in Announcers : \E ctx \in CtxsOf(p) : AnnounceCall(p, ctx)
    \/ \E s \in LockStrings : ResolveCall([EthAddr |-> s])
    \/ SweepCall
    \/ \E p \in Procs : Lock(p)
    \/ \E p \in Procs : Locked(p)
    \/ ResolveReply
    \/ AdvanceLock

\* A goroutine inside a critical section goes on running.
SpecLock == InitLock /\ [][NextLock]_vars /\ WF_vars(\E p \in Procs : Locked(p))

\* ------------------------------------------------------------------ timers
\* The ticker after a receive at instant t (time.NewTicker): its channel buffers
\* one tick, the ticks that found it full were dropped.
tickEvery(period, next, t) == next + period * (((t - next) \div period) + 1)

\* ------------------------------------------------------------------ ledger
\* blockchain.Blockchainer.GetOpenedDeal(self, addr): the ids the ledger lists
\* for the pair, in the ledger's order.  The ledger lists every deal it knows
\* for the pair whatever its status; findDealOnce does its own status check.
GetOpenedDeal(self, addr) ==
    SelectSeq(order, LAMBDA i : deals[i].supplier = self /\ deals[i].buyer = addr)

\* A deal appears on the ledger, listed before or after the ones already there.
LedgerOpen(i, b, h, front) ==
    /\ deals[i] = NoDeal
    /\ deals' = [deals EXCEPT ![i] = [id |-> i, status |-> "PENDING", hash |-> h,
                                      buyer |-> b, supplier |-> Self]]
    /\ order' = IF front THEN <<i>> \o order ELSE Append(order, i)
    /\ UNCHANGED <<now, lvars, tvars, kvars, timeout, cancelled, fpc, fctxErr, ftick, fstart, fres, fcall>>

\* A deal moves on: PENDING -> ACCEPTED -> CLOSED, never back.
LedgerProgress(i) ==
    /\ deals[i].status \in {"PENDING", "ACCEPTED"}
    /\ deals' = [deals EXCEPT ![i].status = IF @ = "PENDING" THEN "ACCEPTED" ELSE "CLOSED"]
    /\ UNCHANGED <<now, lvars, tvars, kvars, order, timeout, cancelled, fpc, fctxErr, ftick, fstart, fres, fcall>>

\* ------------------------------------------------------------------ discovery
\* Mutant: the status of a candidate is not checked.
Matches_NoStatus(deal, hash) == deal.hash = hash

\* The test of findDealOnce (device.go:267).
Matches(deal, hash) == deal.status = "PENDING" /\ deal.hash = hash

\* The deadline of context.WithTimeout(e.ctx, e.timeout) (device.go:224).
ctxDeadline(start, tmo) == start + tmo

\* The ids of the deals the ledger lists for the pair that are PENDING with
\* the hash.
Matching(addr, hash) ==
    {i \in DealIds : /\ deals[i] # NoDeal
                     /\ deals[i].supplier = Self /\ deals[i].buyer = addr
                     /\ deals[i].status = "PENDING" /\ deals[i].hash = hash}

\* Whether the ledger lists for the pair a PENDING deal with the hash.
MatchListed(addr, hash) == Matching(addr, hash) # {}

\* findDeals returns (its deferred cancel() and tk.Stop() run).
Returned(deal, err) ==
    /\ fpc' = "done"
    /\ fres' = [deal |-> deal, err |-> err]
    /\ ftick' = 0
    /\ fstart' = 0
    /\ fctxErr' = "nil"

\* The call as findDeals sets out: the request, no tick received, no id to
\* range over, and the ids that match at the call.
NewCall(addr, hash) ==
    [addr |-> addr, hash |-> hash, ticks |-> 0, matchAtCall |-> Matching(addr, hash),
     probe0Ok |-> TRUE, lastFailed |-> FALSE, ids |-> << >>]

\* Mutant: findDeals enters its loop without probing first.
findDeals_Start_NoProbe(addr, hash) ==
    /\ fpc = "idle"
    /\ now + timeout <= MaxTime
    /\ fcall' = NewCall(addr, hash)
    /\ fpc' = "select"
    /\ fres' = NoRes
    /\ ftick' = now + FindTick
    /\ fstart' = now
    /\ fctxErr' = IF cancelled THEN "Canceled" ELSE "nil"
    /\ UNCHANGED <<now, lvars, tvars, kvars, deals, order, timeout, cancelled>>

\* WaitForDealCreated / findDeals up to the call of its first probe
\* (device.go:182-230): derive the context, start the ticker, call
\* findDealOnce, which sends its list query.
findDeals_Start(addr, hash) ==
    /\ fpc = "idle"
    /\ now + timeout <= MaxTime
    /\ fcall' = NewCall(addr, hash)
    /\ fpc' = "list"
    /\ fres' = NoRes
    /\ ftick' = now + FindTick
    /\ fstart' = now
    /\ fctxErr' = IF cancelled THEN "Canceled" ELSE "nil"
    /\ UNCHANGED <<now, lvars, tvars, kvars, deals, order, timeout, cancelled>>

\* The select takes a tick (device.go:235-237) and calls findDealOnce, which
\* sends its list query.
findDeals_Tick ==
    /\ fpc = "select"
    /\ now >= ftick
    /\ fpc' = "list"
    /\ ftick' = tickEvery(FindTick, ftick, now)
    /\ fcall' = [fcall EXCEPT !.ticks = @ + 1, !.lastFailed = FALSE]
    /\ UNCHANGED <<now, lvars, tvars, kvars, deals, order, timeout, cancelled,
                   fctxErr, fstart, fres>>

\* A probe met a ledger error: the latest probe has failed, and so has the
\* first if it is the one under way.
ProbeError == [fcall EXCEPT !.lastFailed = TRUE, !.probe0Ok = @ /\ fcall.ticks # 0]

\* Mutant: a list query that fails ends the call with the ledger's error.
findDealOnce_List_Fatal(fail) ==
    /\ fpc = "list"
    /\ IF fail
       THEN /\ fcall' = ProbeError
            /\ Returned(NoDeal, "LedgerError")
       ELSE /\ fcall' = [fcall EXCEPT !.ids = GetOpenedDeal(Self, fcall.addr)]
            /\ fpc' = IF GetOpenedDeal(Self, fcall.addr) = << >> THEN "select" ELSE "info"
            /\ UNCHANGED <<fres, ftick, fstart, fctxErr>>
    /\ UNCHANGED <<now, lvars, tvars, kvars, deals, order, timeout, cancelled>>

\* GetOpenedDeal answers (device.go:248-258): on an error findDealOnce returns
\* nil and findDeals goes to its select, else the ids are ranged over.
findDealOnce_List(fail) ==
    /\ fpc = "list"
    /\ IF fail
       THEN /\ fcall' = ProbeError
            /\ fpc' = "select"
       ELSE /\ fcall' = [fcall EXCEPT !.ids = GetOpenedDeal(Self, fcall.addr)]
            /\ fpc' = IF GetOpenedDeal(Self, fcall.addr) = << >> THEN "select" ELSE "info"
    /\ UNCHANGED <<fres, ftick, fstart, fctxErr>>
    /\ UNCHANGED <<now, lvars, tvars, kvars, deals, order, timeout, cancelled>>

\* The loop of findDealOnce moves to its next id, or findDealOnce returns nil
\* and findDeals goes to its select (device.go:258, 272, 235).
NextCandidate(c) ==
    /\ fcall' = [c EXCEPT !.ids = Tail(@)]
    /\ fpc' = IF Tail(c.ids) = << >> THEN "select" ELSE "info"
    /\ UNCHANGED <<fres, ftick, fstart, fctxErr>>

\* GetDealInfo answers for the id the loop is at (device.go:260-269): on an
\* error the id is skipped, a deal that matches is returned.
findDealOnce_Info(fail) ==
    /\ fpc = "info"
    /\ IF fail
       THEN NextCandidate(ProbeError)
       ELSE IF Matches(deals[Head(fcall.ids)], fcall.hash)
            THEN /\ fcall' = [fcall EXCEPT !.ids = << >>]
                 /\ Returned(deals[Head(fcall.ids)], "nil")
            ELSE NextCandidate(fcall)
    /\ UNCHANGED <<now, lvars, tvars, kvars, deals, order, timeout, cancelled>>

\* Mutant: the error of a failed last probe is returned in place of ctx.Err().
findDeals_Done_LedgerErr ==
    /\ fpc = "select"
    /\ fctxErr # "nil"
    /\ Returned(NoDeal, IF fcall.lastFailed THEN "LedgerError" ELSE fctxErr)
    /\ UNCHANGED <<now, lvars, tvars, kvars, deals, order, timeout, cancelled, fcall>>

\* The select takes ctx.Done() (device.go:240-241).
findDeals_Done ==
    /\ fpc = "select"
    /\ fctxErr # "nil"
    /\ Returned(NoDeal, fctxErr)
    /\ UNCHANGED <<now, lvars, tvars, kvars, deals, order, timeout, cancelled, fcall>>

\* findDeals is under way: at its select, or awaiting a query of a probe.
Finding == fpc \in {"select", "list", "info"}

\* The timer of the derived context fires at its deadline.
DeadlineFire ==
    /\ Finding
    /\ fctxErr = "nil"
    /\ now >= ctxDeadline(fstart, timeout)
    /\ fctxErr' = "DeadlineExceeded"
    /\ UNCHANGED <<now, lvars, tvars, kvars, deals, order, timeout, cancelled, fpc, ftick, fstart, fres, fcall>>

\* Mutant: the context of findDeals is not derived from e.ctx.
CancelCtx_NotDerived ==
    /\ ~cancelled
    /\ cancelled' = TRUE
    /\ UNCHANGED <<now, lvars, tvars, kvars, deals, order, timeout, fpc, fctxErr, ftick, fstart, fres, fcall>>

\* The hub's context e.ctx is cancelled; a context derived from it follows.
CancelCtx ==
    /\ ~cancelled
    /\ cancelled' = TRUE
    /\ fctxErr' = IF Finding /\ fctxErr = "nil" THEN "Canceled" ELSE fctxErr
    /\ UNCHANGED <<now, lvars, tvars, kvars, deals, order, timeout, fpc, ftick, fstart, fres, fcall>>

\* Something findDeals' select waits for is ready, or the timer of the
\* derived context is due.
SelectReady ==
    \/ fpc = "select" /\ (now >= ftick \/ fctxErr # "nil")
    \/ Finding /\ fctxErr = "nil" /\ now >= ctxDeadline(fstart, timeout)

\* The clock advances unless the select has something to take or a timer is
\* due; it advances freely while a ledger query is awaited.
AdvanceEth ==
    /\ now < MaxTime
    /\ ~SelectReady
    /\ now' = now + 1
    /\ UNCHANGED <<lvars, evars, tvars, kvars>>

InitEth ==
    /\ now = 0
    /\ LocatorAtStart
    /\ EthAtRest
    /\ TrackerAtRest
    /\ LockAtRest
    /\ timeout \in {1, MaxTimeout}

NextEth ==
    \/ \E i \in DealIds, b \in Buyers, h \in Hashes, front \in BOOLEAN :
          LedgerOpen(i, b, h, front)
    \/ \E i \in DealIds : LedgerProgress(i)
    \/ \E b \in Buyers, h \in Hashes : findDeals_Start(b, h)
    \/ findDeals_Tick
    \/ \E fail \in BOOLEAN : findDealOnce_List(fail)
    \/ \E fail \in BOOLEAN : findDealOnce_Info(fail)
    \/ findDeals_Done
    \/ DeadlineFire
    \/ CancelCtx
    \/ AdvanceEth

\* The select takes a ready case, the ledger answers every query, timers
\* fire and the clock runs.
FairEth ==
    /\ WF_vars(findDeals_Tick)
    /\ WF_vars(\E fail \in BOOLEAN : findDealOnce_List(fail))
    /\ WF_vars(\E fail \in BOOLEAN : findDealOnce_Info(fail))
    /\ WF_vars(findDeals_Done)
    /\ WF_vars(DeadlineFire)
    /\ WF_vars(AdvanceEth)

SpecEth == InitEth /\ [][NextEth]_vars /\ FairEth

\* ------------------------------------------------------------------ tracker
\* The poll period of WaitForDealClosed: time.NewTicker(5 * time.Second).
ClosedTick == 5

\* Deal ids as callers write them (DealID, a string), and a deal info's GetId().
DealIDs == {"1", "2"}
FormatId(i) == IF i = 1 THEN "1" ELSE IF i = 2 THEN "2" ELSE "0"

\* blockchain.Blockchainer.GetClosedDeal(self, buyerID): the ids the ledger
\* lists for the pair, in the ledger's order.  As with GetOpenedDeal the list
\* may hold deals of any status; WaitForDealClosed does its own status check.
GetClosedDeal(self, buyerID) ==
    SelectSeq(order, LAMBDA i : deals[i].supplier = self /\ deals[i].buyer = buyerID)

\* Mutant: any listed deal with the id counts as closed.
IsClosedDeal_NoStatus(dealInfo, dealID) == FormatId(dealInfo.id) = dealID

\* The test of WaitForDealClosed (device.go:211).
IsClosedDeal(dealInfo, dealID) ==
    FormatId(dealInfo.id) = dealID /\ dealInfo.status = "CLOSED"

\* WaitForDealClosed returns (its deferred timer.Stop() runs).
Watched(err) ==
    /\ wpc' = "done"
    /\ wres' = [err |-> err, at |-> now]
    /\ wtick' = 0

\* Mutant: the first tick is due at once (a probe right at the call).
WaitForDealClosed_Start_Probe(dealID, buyerID) ==
    /\ wpc = "idle"
    /\ wpc' = "select"
    /\ wtick' = now
    /\ wcall' = [NoWatch EXCEPT !.dealID = dealID, !.buyer = buyerID, !.start = now]
    /\ UNCHANGED <<now, lvars, evars, kvars, ares, accepts, wctxErr, wres, gres, gcall>>

\* WaitForDealClosed up to its select (device.go:187-194): start the ticker.
WaitForDealClosed_Start(dealID, buyerID) ==
    /\ wpc = "idle"
    /\ wpc' = "select"
    /\ wtick' = now + ClosedTick
    /\ wcall' = [NoWatch EXCEPT !.dealID = dealID, !.buyer = buyerID, !.start = now]
    /\ UNCHANGED <<now, lvars, evars, kvars, ares, accepts, wctxErr, wres, gres, gcall>>

\* The select takes a tick (device.go:195-198) and the closed-deals query is sent.
WaitForDealClosed_Tick ==
    /\ wpc = "select"
    /\ now >= wtick
    /\ wpc' = "list"
    /\ wtick' = tickEvery(ClosedTick, wtick, now)
    /\ wcall' = [wcall EXCEPT !.ticks = @ + 1, !.listFailed = FALSE, !.infoFailed = FALSE]
    /\ UNCHANGED <<now, lvars, evars, kvars, ares, accepts, wctxErr, wres, gres, gcall>>

\* The loop over the closed ids goes on to its next id (device.go:205), or
\* ends and the call is back in its select (device.go:193-194).
NextId(flag) ==
    /\ wcall' = [wcall EXCEPT !.ids = Tail(@), !.infoFailed = @ \/ flag]
    /\ wpc' = IF Tail(wcall.ids) = << >> THEN "select" ELSE "info"
    /\ UNCHANGED <<wres, wtick>>

\* Mutant: a failed list query is retried at the next tick.
WaitForDealClosed_List_Retry(fail) ==
    /\ wpc = "list"
    /\ IF fail
       THEN /\ wcall' = [wcall EXCEPT !.listFailed = TRUE]
            /\ wpc' = "select"
            /\ UNCHANGED <<wres, wtick>>
       ELSE /\ wcall' = [wcall EXCEPT !.ids = GetClosedDeal(Self, wcall.buyer)]
            /\ wpc' = IF GetClosedDeal(Self, wcall.buyer) = << >> THEN "select" ELSE "info"
            /\ UNCHANGED <<wres, wtick>>
    /\ UNCHANGED <<now, lvars, evars, kvars, ares, accepts, wctxErr, gres, gcall>>

\* GetClosedDeal answers (device.go:198-203): its error is returned, its ids
\* are ranged over.
WaitForDealClosed_List(fail) ==
    /\ wpc = "list"
    /\ IF fail
       THEN /\ wcall' = [wcall EXCEPT !.listFailed = TRUE]
            /\ Watched("LedgerError")
       ELSE /\ wcall' = [wcall EXCEPT !.ids = GetClosedDeal(Self, wcall.buyer)]
            /\ wpc' = IF GetClosedDeal(Self, wcall.buyer) = << >> THEN "select" ELSE "info"
            /\ UNCHANGED <<wres, wtick>>
    /\ UNCHANGED <<now, lvars, evars, kvars, ares, accepts, wctxErr, gres, gcall>>

\* Mutant: the loop never sees the deal closed.
WaitForDealClosed_Info_Blind(fail) ==
    /\ wpc = "info"
    /\ NextId(fail)
    /\ UNCHANGED <<now, lvars, evars, kvars, ares, accepts, wctxErr, gres, gcall>>

\* GetDealInfo answers for the id the loop is at (device.go:206-214): on an
\* error the id is skipped, a CLOSED deal with the id ends the call.
WaitForDealClosed_Info(fail) ==
    /\ wpc = "info"
    /\ IF fail
       THEN NextId(TRUE)
       ELSE IF IsClosedDeal(deals[Head(wcall.ids)], wcall.dealID)
            THEN /\ wcall' = [wcall EXCEPT !.ids = << >>]
                 /\ Watched("nil")
            ELSE NextId(FALSE)
    /\ UNCHANGED <<now, lvars, evars, kvars, ares, accepts, wctxErr, gres, gcall>>

\* Mutant: cancellation is looked at only when a tick is due.
DoneReady_AtTick == wctxErr # "nil" /\ now >= wtick

\* ctx.Done() is ready.
DoneReady == wctxErr # "nil"

\* The select takes ctx.Done() (device.go:216-217).
WaitForDealClosed_Done ==
    /\ wpc = "select"
    /\ DoneReady
    /\ Watched(wctxErr)
    /\ UNCHANGED <<now, lvars, evars, kvars, ares, accepts, wctxErr, wcall, gres, gcall>>

\* The caller cancels the ctx it gave, or gives one already cancelled.
CancelWatch ==
    /\ wpc \in {"idle", "select", "list", "info"}
    /\ wctxErr = "nil"
    /\ wctxErr' = "Canceled"
    /\ UNCHANGED <<now, lvars, evars, kvars, ares, accepts, wpc, wtick, wres, wcall, gres, gcall>>

\* Something WaitForDealClosed's select waits for is ready.
WatchReady == wpc = "select" /\ (now >= wtick \/ DoneReady)

\* The clock advances unless the select has something to take; it advances
\* freely while a ledger query is awaited.
AdvanceTrack ==
    /\ now < MaxTrackTime
    /\ ~WatchReady
    /\ now' = now + 1
    /\ UNCHANGED <<lvars, evars, tvars, kvars>>

InitTracker ==
    /\ now = 0
    /\ LocatorAtStart
    /\ EthAtRest
    /\ TrackerAtRest
    /\ LockAtRest
    /\ timeout = 1

NextTracker ==
    \/ \E i \in DealIds, b \in Buyers, front \in BOOLEAN : LedgerOpen(i, b, "h1", front)
    \/ \E i \in DealIds : LedgerProgress(i)
    \/ \E d \in DealIDs, b \in Buyers : WaitForDealClosed_Start(d, b)
    \/ WaitForDealClosed_Tick
    \/ \E fail \in BOOLEAN : WaitForDealClosed_List(fail)
    \/ \E fail \in BOOLEAN : WaitForDealClosed_Info(fail)
    \/ WaitForDealClosed_Done
    \/ CancelWatch
    \/ AdvanceTrack

\* The select takes a case that is ready, the ledger answers every query and
\* the clock does not stop.
FairTracker ==
    /\ WF_vars(WaitForDealClosed_Tick)
    /\ WF_vars(\E fail \in BOOLEAN : WaitForDealClosed_List(fail))
    /\ WF_vars(\E fail \in BOOLEAN : WaitForDealClosed_Info(fail))
    /\ WF_vars(WaitForDealClosed_Done)
    /\ WF_vars(AdvanceTrack)

SpecTracker == InitTracker /\ [][NextTracker]_vars /\ FairTracker

\* ------------------------------------------------------------------ deals
\* Ids as the callers of GetDeal write them: two the ledger may know, one it
\* does not know, one that is no number.
IdStrings == {"1", "2", "7", "x"}

\* util.ParseBigInt: the number a decimal string denotes, or an error.
ParseBigInt(id) ==
    CASE id = "1" -> [n |-> 1, err |-> "nil"]
      [] id = "2" -> [n |-> 2, err |-> "nil"]
      [] id = "7" -> [n |-> 7, err |-> "nil"]
      [] OTHER -> [n |-> 0, err |-> "ParseError"]

\* Accounts a deal's GetSupplierID() may name.
Suppliers == {Self, "other"}

\* blockchain.Blockchainer.GetDealInfo(bigID) when it does not fail, on a
\* ledger dls: the info the ledger holds, a zero-valued one for an id it does
\* not know.
GetDealInfoOn(dls, bigID) == IF bigID \in DealIds THEN dls[bigID] ELSE NoDeal
GetDealInfo(bigID) == GetDealInfoOn(deals, bigID)

\* Mutant: the supplier alone decides.
dealOK_NoStatus(deal) == deal.supplier = Self

\* idOK && statusOK of GetDeal (device.go:297-299).
dealOK(deal) == deal.supplier = Self /\ deal.status = "ACCEPTED"

\* Mutant: an id the ledger does not know is reported as such.
getDealOn_TellsUnknown(dls, id, infoErr) ==
    LET p == ParseBigInt(id) IN
    IF p.err # "nil" THEN [deal |-> NoDeal, err |-> p.err]
    ELSE IF infoErr THEN [deal |-> NoDeal, err |-> "LedgerError"]
    ELSE IF dealOK(GetDealInfoOn(dls, p.n))
         THEN [deal |-> GetDealInfoOn(dls, p.n), err |-> "nil"]
    ELSE IF GetDealInfoOn(dls, p.n) = NoDeal
         THEN [deal |-> NoDeal, err |-> "errUnknownDeal"]
    ELSE [deal |-> NoDeal, err |-> "errDealNotFound"]

\* GetDeal (device.go:285-306) as a function of the ledger, of its argument and
\* of whether the ledger's info query fails.
getDealOn(dls, id, infoErr) ==
    LET p == ParseBigInt(id) IN
    IF p.err # "nil" THEN [deal |-> NoDeal, err |-> p.err]
    ELSE IF infoErr THEN [deal |-> NoDeal, err |-> "LedgerError"]
    ELSE IF dealOK(GetDealInfoOn(dls, p.n))
         THEN [deal |-> GetDealInfoOn(dls, p.n), err |-> "nil"]
    ELSE [deal |-> NoDeal, err |-> "errDealNotFound"]

getDeal(id, infoErr) == getDealOn(deals, id, infoErr)

\* e.key, the hub's signing key.
Key == "hubKey"

\* blockchain.Blockchainer.AcceptDeal(key, bigID): the ledger accepts a PENDING
\* deal supplied by the key's owner, and answers with an error otherwise or
\* when the transaction fails.
bcAcceptDeal(key, bigID, fail) ==
    IF /\ ~fail /\ key = Key /\ bigID \in DealIds
       /\ deals[bigID].supplier = Self /\ deals[bigID].status = "PENDING"
    THEN [err |-> "nil", deals |-> [deals EXCEPT ![bigID].status = "ACCEPTED"]]
    ELSE [err |-> "LedgerError", deals |-> deals]

\* Mutant: GetDeal accepts the deal it finds PENDING.
GetDeal_Accepting(id, infoErr) ==
    /\ gres' = getDeal(id, infoErr)
    /\ gcall' = [id |-> id,
                 fetched |-> ParseBigInt(id).err = "nil" /\ ~infoErr,
                 info |-> IF ParseBigInt(id).err = "nil" /\ ~infoErr
                          THEN GetDealInfo(ParseBigInt(id).n) ELSE NoDeal]
    /\ deals' = bcAcceptDeal(Key, ParseBigInt(id).n, infoErr).deals
    /\ UNCHANGED <<now, lvars, kvars, order, timeout, cancelled, fpc, fctxErr, ftick,
                   fstart, fres, fcall, wpc, wctxErr, wtick, wres, wcall, ares, accepts>>

\* A call of GetDeal.
GetDeal(id, infoErr) ==
    /\ gres' = getDeal(id, infoErr)
    /\ gcall' = [id |-> id,
                 fetched |-> ParseBigInt(id).err = "nil" /\ ~infoErr,
                 info |-> IF ParseBigInt(id).err = "nil" /\ ~infoErr
                          THEN GetDealInfo(ParseBigInt(id).n) ELSE NoDeal]
    /\ UNCHANGED <<now, lvars, evars, kvars, ares, accepts, wpc, wctxErr, wtick, wres, wcall>>

\* Mutant: the ledger's answer is dropped.
AcceptDeal_NoErr(id, fail) ==
    LET p == ParseBigInt(id) IN
    /\ Len(accepts) < MaxAccepts
    /\ IF p.err # "nil"
       THEN ares' = p.err /\ UNCHANGED <<deals, accepts>>
       ELSE LET r == bcAcceptDeal(Key, p.n, fail) IN
            /\ ares' = "nil"
            /\ deals' = r.deals
            /\ accepts' = Append(accepts, [key |-> Key, id |-> p.n, err |-> r.err])
    /\ UNCHANGED <<now, lvars, kvars, order, timeout, cancelled, fpc, fctxErr, ftick,
                   fstart, fres, fcall, wpc, wctxErr, wtick, wres, wcall, gres, gcall>>

\* AcceptDeal (device.go:275-283).
AcceptDeal(id, fail) ==
    LET p == ParseBigInt(id) IN
    /\ Len(accepts) < MaxAccepts
    /\ IF p.err # "nil"
       THEN ares' = p.err /\ UNCHANGED <<deals, accepts>>
       ELSE LET r == bcAcceptDeal(Key, p.n, fail) IN
            /\ ares' = r.err
            /\ deals' = r.deals
            /\ accepts' = Append(accepts, [key |-> Key, id |-> p.n, err |-> r.err])
    /\ UNCHANGED <<now, lvars, kvars, order, timeout, cancelled, fpc, fctxErr, ftick,
                   fstart, fres, fcall, wpc, wctxErr, wtick, wres, wcall, gres, gcall>>

\* The deals a ledger may hold under id i, whoever supplies them.
DealsOf(i) ==
    {NoDeal} \cup [id : {i}, status : Statuses, hash : {"h1"}, buyer : {"b1"},
                   supplier : Suppliers]

\* The ids a ledger holds, in the order of their creation.
OrderOf(dls) == SelectSeq(<<1, 2>>, LAMBDA i : dls[i] # NoDeal)

InitDeal ==
    /\ now = 0
    /\ LocatorAtStart
    /\ TrackerAtRest
    /\ LockAtRest
    /\ deals \in [DealIds -> UNION {DealsOf(i) : i \in DealIds}]
    /\ \A i \in DealIds : deals[i] \in DealsOf(i)
    /\ order = OrderOf(deals)
    /\ timeout = 1 /\ cancelled = FALSE
    /\ fpc = "idle" /\ fctxErr = "nil" /\ ftick = 0 /\ fstart = 0
    /\ fres = NoRes /\ fcall = NoCall

NextDeal ==
    \/ \E id \in IdStrings, infoErr \in BOOLEAN : GetDeal(id, infoErr)
    \/ \E id \in IdStrings, fail \in BOOLEAN : AcceptDeal(id, fail)
    \/ \E i \in DealIds : LedgerProgress(i)

SpecDeal == InitDeal /\ [][NextDeal]_vars

\* ------------------------------------------------------------------ core
\* The whole ETH interface over one ledger.  A behaviour makes calls of one
\* method only (the one called first): the methods share nothing but the
\* ledger, which changes under all of them.
NoneOfEth == fpc = "idle" /\ ~cancelled
NoneOfTracker == wpc = "idle" /\ wctxErr = "nil"
NoneOfDeal == gcall = NoGet /\ accepts = << >> /\ ares = "nil"

\* A step of WaitForDealCreated, WaitForDealClosed or GetDeal: it moves the
\* call on or records what it returned.
QueryStep ==
    <<fpc, fres, fcall, wpc, wres, wcall, gres, gcall>>'
        # <<fpc, fres, fcall, wpc, wres, wcall, gres, gcall>>

InitCore ==
    /\ now = 0
    /\ LocatorAtStart
    /\ EthAtRest
    /\ TrackerAtRest
    /\ LockAtRest
    /\ timeout = MaxTimeout - 1

NextCore ==
    \/ \E i \in DealIds, b \in Buyers, front \in BOOLEAN : LedgerOpen(i, b, "h1", front)
    \/ \E i \in DealIds : LedgerProgress(i)
    \/ /\ NoneOfTracker /\ NoneOfDeal
       /\ \/ \E b \in Buyers, h \in Hashes : findDeals_Start(b, h)
          \/ findDeals_Tick
          \/ \E fail \in BOOLEAN : findDealOnce_List(fail)
          \/ \E fail \in BOOLEAN : findDealOnce_Info(fail)
          \/ findDeals_Done
          \/ DeadlineFire
          \/ CancelCtx
          \/ AdvanceEth
    \/ /\ NoneOfEth /\ NoneOfDeal
       /\ \/ \E d \in DealIDs, b \in Buyers : WaitForDealClosed_Start(d, b)
          \/ WaitForDealClosed_Tick
          \/ \E fail \in BOOLEAN : WaitForDealClosed_List(fail)
          \/ \E fail \in BOOLEAN : WaitForDealClosed_Info(fail)
          \/ WaitForDealClosed_Done
          \/ CancelWatch
          \/ AdvanceTrack
    \/ /\ NoneOfEth /\ NoneOfTracker
       /\ \/ \E id \in IdStrings, infoErr \in BOOLEAN : GetDeal(id, infoErr)
          \/ \E id \in IdStrings, fail \in BOOLEAN : AcceptDeal(id, fail)

SpecCore == InitCore /\ [][NextCore]_vars

\* ------------------------------------------------------------------ claims
\* The identity a well-formed Resolve request names.
Target == HexToAddress(last.addrStr)

\* A Resolve has just replied with the endpoints of the node it held.
ResolvedOk == last.op = "Resolve" /\ last.err = "nil"

\* The lookup of a Resolve of a has just found a record (the reply is still to
\* be built), or has just found none (Resolve has returned the error).
Found(a) == last.op = "getResolve" /\ Target = a
NotFound(a) ==
    /\ last.op = "Resolve" /\ IsHexAddress(last.addrStr) /\ Target = a
    /\ last.err = "errNodeNotFound"

\* A Resolve of a has just done its lookup.
ResolveOf(a) == Found(a) \/ NotFound(a)

\* The reply of a Resolve carries the endpoints of the node found at the
\* lookup, whatever was done to the map since; until then that node is held.
ReplyOfHeld ==
    /\ (pc["R"] = "read" /\ pc'["R"] = "idle")
          => last' = [NoOp EXCEPT !.op = "Resolve", !.addrStr = loc["R"].req,
                                  !.out = loc["R"].n.ipAddr]
    /\ (pc["R"] = "read" /\ pc'["R"] = "read") => loc'["R"] = loc["R"]
    /\ (last'.op = "Resolve" /\ last'.err = "nil" /\ last' # last) => pc["R"] = "read"

\* The janitor is not behind: no tick is due and no sweep is under way.
JanitorIdle == jpc = "wait" /\ now < nextTick

\* C1: a successful Announce by A carrying E, immediately followed by the
\* lookup of a Resolve(A), makes that lookup find a node with exactly E (E may
\* be empty), and the reply of a Resolve carries the list of the node found.
C1_AnnounceThenResolve ==
    /\ [][(/\ last.op = "Announce" /\ last.err = "nil"
           /\ pc["R"] = "idle"
           /\ last'.op \in {"Resolve", "getResolve"} /\ IsHexAddress(last'.addrStr)
           /\ HexToAddress(last'.addrStr) = last.ctx.Wallet)
          => /\ last'.op = "getResolve"
             /\ pc'["R"] = "read"
             /\ loc'["R"].n.ipAddr = last.ips]_vars
    /\ [][ReplyOfHeld]_vars

\* C1 witness: a Resolve, spelled differently from the stored key, returns the
\* empty list that the identity's Announce at this same instant carried.
C1_Witness ==
    /\ ResolvedOk /\ last.addrStr = "0xA1" /\ last.out = << >>
    /\ annTs["0xa1"] = now /\ annIps["0xa1"] = << >> /\ now > 0

\* C2: last write wins: every stored record is exactly what the most recent
\* Announce of its identity wrote; the lookup of a Resolve(A) finds the record
\* of the Announce of A that took the lock last before it, and the reply
\* carries exactly that Announce's endpoint list, never a merge, whatever
\* Announce or sweep runs between lookup and reply.
C2_LastWriteWins ==
    /\ [](/\ \A a \in DOMAIN db :
                /\ a \in Addrs
                /\ db[a].ipAddr = annIps[a]
                /\ db[a].ts = annTs[a]
          /\ last.op = "getResolve"
                => /\ pc["R"] = "read"
                   /\ loc["R"].n = db[Target]
                   /\ loc["R"].n.ipAddr = annIps[Target]
          /\ pc["R"] = "read" => HexToAddress(loc["R"].req) = loc["R"].n.ethAddr)
    /\ [][ReplyOfHeld]_vars

\* C2 witness: Resolve returns <<"ip1">> from a record whose Announce replaced
\* an earlier record of the same identity.
C2_Witness ==
    /\ ResolvedOk /\ Target = "0xa2" /\ last.out = <<"ip1">>
    /\ annIps["0xa2"] = <<"ip1">>
    /\ renewed["0xa2"]

\* C3 as claimed: a Resolve(A) at any time t >= t0 + NodeTTL + CleanupPeriod,
\* t0 the only (most recent) Announce of A, fails with not-found, whatever the
\* ticker phase and however it interleaves with the sweep due at that instant.
C3_Original ==
    \A a \in Addrs :
        (ResolveOf(a) /\ annTs[a] >= 0 /\ now >= annTs[a] + NodeTTL + CleanupPeriod)
            => NotFound(a)

\* C3 amended: once a sweep whose cutoff is later than t0 (its clock reading
\* later than t0 + NodeTTL) has left its critical section, every Resolve fails
\* with not-found; a janitor that is not behind has finished such a sweep
\* less than CleanupPeriod ago, so that a Resolve at
\* t >= t0 + NodeTTL + CleanupPeriod fails with not-found whenever no tick is
\* due and no sweep is under way at its lookup. While the janitor is late the
\* lookup finds the record, however old.
C3_BoundedEviction ==
    /\ \A a \in Addrs :
          (ResolveOf(a) /\ annTs[a] >= 0 /\ swept > annTs[a]) => NotFound(a)
    /\ JanitorIdle => swept > now - NodeTTL - CleanupPeriod
    /\ \A a \in Addrs :
          (/\ ResolveOf(a) /\ annTs[a] >= 0
           /\ now >= annTs[a] + NodeTTL + CleanupPeriod
           /\ JanitorIdle)
              => NotFound(a)

\* C3 witness: a Resolve of an identity announced NodeTTL + CleanupPeriod ago
\* or earlier fails with not-found, a sweep with a cutoff after the Announce
\* having finished.
C3_Witness ==
    /\ NotFound("0xa1")
    /\ annTs["0xa1"] >= 0 /\ swept > annTs["0xa1"]
    /\ now >= annTs["0xa1"] + NodeTTL + CleanupPeriod

\* C4: a record whose most recent Announce is at most NodeTTL old is in the
\* directory with that Announce's endpoints (no sweep has evicted it), and a
\* Resolve of it succeeds with them, however long ago it was first announced.
C4_ReannounceResets ==
    \A a \in Addrs :
        (annTs[a] >= 0 /\ now - annTs[a] <= NodeTTL)
            => /\ Has(db, a) /\ db[a].ipAddr = annIps[a]
               /\ ResolveOf(a) => (Found(a) /\ loc["R"].n.ipAddr = annIps[a])

\* C4 witness: Resolve succeeds on a record re-announced within NodeTTL. The
\* record that Announce replaced was older than NodeTTL then, and a sweep that
\* would have evicted it has since finished.
C4_Witness ==
    /\ ResolvedOk /\ Target = "0xa1" /\ last.out = annIps["0xa1"]
    /\ renewed["0xa1"]
    /\ swept >= annTs["0xa1"] - NodeTTL
    /\ now >= annTs["0xa1"] + CleanupPeriod
    /\ now - annTs["0xa1"] <= NodeTTL

\* C5 as claimed: Resolve never returns endpoints from a record older than NodeTTL.
C5_Original ==
    last.op = "getResolve" => now - loc["R"].n.ts <= NodeTTL

\* C5 amended: Resolve fails with not-found exactly when the directory holds no
\* record under the identity at its lookup. A record it returns may be older
\* than NodeTTL, but its last-seen is never before the cutoff of the latest
\* sweep that has left its critical section, as for every record of the
\* directory; so the record is younger than NodeTTL + CleanupPeriod when no
\* tick is due and no sweep is under way at the lookup, and of any age while
\* the janitor is late.
C5_ResolveLiveness ==
    /\ \A a \in DOMAIN db : db[a].ts >= swept
    /\ \A a \in Addrs \cup {ZeroAddr} :
          /\ ResolveOf(a)
                => /\ NotFound(a) <=> ~Has(db, a)
                   /\ Found(a) => /\ loc["R"].n = db[a]
                                  /\ loc["R"].n.ts >= swept
                                  /\ JanitorIdle
                                        => now - loc["R"].n.ts < NodeTTL + CleanupPeriod
          /\ (last.op = "Resolve" /\ IsHexAddress(last.addrStr) /\ Target = a)
                => last.err \in {"nil", "errNodeNotFound"}

\* C5 witness: the janitor being late, Resolve returns the endpoints of a
\* record older than NodeTTL + CleanupPeriod.
C5_Witness ==
    /\ ResolvedOk /\ Target \in Addrs
    /\ last.out = <<"ip1">>
    /\ annIps[Target] = <<"ip1">>
    /\ Has(db, Target)
    /\ now - db[Target].ts > NodeTTL + CleanupPeriod

\* C6: Resolve of a well-formed identity that was never announced fails with
\* not-found, whatever Announces, Resolves and sweeps touched other identities.
C6_NeverAnnounced ==
    \A a \in Addrs :
        (ResolveOf(a) /\ annTs[a] = -1)
            => (NotFound(a) /\ last.out = << >>)

\* C6 witness: not-found for a never-announced identity while another
\* identity's record is in the directory and a sweep has already run.
C6_Witness ==
    /\ NotFound("0xa2") /\ annTs["0xa2"] = -1
    /\ Has(db, "0xa1") /\ swept > 0 - NodeTTL

\* C7: an Announce over a channel authenticated as A writes the record keyed
\* A (with identity field A and the request's endpoints) and changes the
\* record of no other identity.
C7_IdentityBinding ==
    [][(last'.op = "Announce" /\ last'.err = "nil")
       => /\ Has(db', last'.ctx.Wallet)
          /\ db'[last'.ctx.Wallet].ethAddr = last'.ctx.Wallet
          /\ db'[last'.ctx.Wallet].ipAddr = last'.ips
          /\ \A a \in (DOMAIN db \cup DOMAIN db') \ {last'.ctx.Wallet} :
                Has(db, a) /\ Has(db', a) /\ db'[a] = db[a]]_vars

\* C7 witness: an Announce by 0xa1 has just been served while 0xa2 keeps an
\* older record with other endpoints.
C7_Witness ==
    /\ last.op = "Announce" /\ last.err = "nil" /\ last.ctx.Wallet = "0xa1"
    /\ Has(db, "0xa1") /\ db["0xa1"].ts = now
    /\ Has(db, "0xa2") /\ db["0xa2"].ts < now /\ db["0xa2"].ipAddr # last.ips

\* C8: an Announce with no peer in its context, or with a credential that is
\* not an EthAuthInfo, fails with the authentication failure of extractEthAddr
\* (status DataLoss for the missing peer, Unauthenticated for the wrong
\* credential) and leaves the directory unchanged.
C8_UnauthenticatedAnnounce ==
    [][(last'.op = "Announce" /\ (~last'.ctx.hasPeer \/ last'.ctx.auth # "EthAuthInfo"))
       => /\ last'.err = (IF last'.ctx.hasPeer THEN "Unauthenticated" ELSE "DataLoss")
          /\ db' = db]_vars

\* C8 witness: an Announce over a channel with another kind of credential has
\* been refused while the directory holds a record.
C8_Witness ==
    /\ last.op = "Announce" /\ last.ctx.hasPeer /\ last.ctx.auth = "TLSInfo"
    /\ last.err = "Unauthenticated" /\ last.ips = <<"ip1">>
    /\ DOMAIN db = {"0xa2"}

\* The first probe of the call is over.
Probe0Over == fpc \in {"select", "done"} \/ (Finding /\ fcall.ticks >= 1)

\* What C9 promises: the call has returned a PENDING deal of the pair with the
\* requested hash, having received no tick.
ReturnedAtOnce ==
    /\ fpc = "done"
    /\ fres.err = "nil"
    /\ fres.deal.status = "PENDING"
    /\ fres.deal.hash = fcall.hash
    /\ fres.deal.buyer = fcall.addr
    /\ fcall.ticks = 0

\* C9 as stated: when, at the call, the ledger lists for the pair a PENDING
\* deal with the requested hash and the queries of the first probe succeed,
\* WaitForDealCreated returns such a deal from the probe made before the
\* select, having received no tick.
C9_Original ==
    (Probe0Over /\ fcall.matchAtCall # {} /\ fcall.probe0Ok) => ReturnedAtOnce

\* C9: when, at the call, the ledger lists for the pair a PENDING deal with
\* the requested hash, the deal is still PENDING when the first probe has
\* fetched the infos and the queries of that probe succeed, WaitForDealCreated
\* returns such a deal from the probe made before the select, having received
\* no tick; the first probe passes over a candidate only if its info, as
\* fetched, does not match or could not be fetched.
C9_ImmediateProbe ==
    /\ []((/\ Probe0Over /\ fcall.probe0Ok
           /\ \E i \in fcall.matchAtCall : deals[i].status = "PENDING")
          => ReturnedAtOnce)
    /\ [][(fpc = "info" /\ fcall.ticks = 0 /\ fcall' # fcall /\ fpc' # "done")
          => \/ ~fcall'.probe0Ok
             \/ deals[Head(fcall.ids)].status # "PENDING"
             \/ deals[Head(fcall.ids)].hash # fcall.hash]_vars

\* C9 witness: the first probe returned deal 2, listed after a deal of the
\* same pair that did not match.
C9_Witness ==
    /\ fpc = "done" /\ fcall.matchAtCall = {2} /\ fcall.probe0Ok /\ fcall.ticks = 0
    /\ fres.deal.id = 2
    /\ deals[2].status = "PENDING"
    /\ GetOpenedDeal(Self, fcall.addr) = <<1, 2>>

\* C10 as stated: a WaitForDealCreated whose probes find no match returns the
\* timeout error (unless e.ctx was cancelled) once start + timeout is reached,
\* at most one poll interval later.
C10_Original ==
    [][(Finding /\ fpc' = "done" /\ fres'.deal = NoDeal /\ ~cancelled)
       => /\ fres'.err = "DeadlineExceeded"
          /\ now >= ctxDeadline(fstart, timeout)
          /\ now <= ctxDeadline(fstart, timeout) + FindTick]_vars

\* C11: every deal WaitForDealCreated returns was, in the info the returning
\* probe fetched, PENDING with the requested hash, and is the first such
\* candidate in the order the ledger's list query gave: the probe ranges over
\* the ids in that order and passes over a candidate only if its info could
\* not be fetched or did not match.
C11_MatchSoundness ==
    /\ [][(Finding /\ fpc' = "done" /\ fres'.deal # NoDeal)
          => /\ fpc = "info"
             /\ fres'.err = "nil"
             /\ fres'.deal = deals[Head(fcall.ids)]
             /\ fres'.deal.status = "PENDING" /\ fres'.deal.hash = fcall.hash
             /\ fres'.deal.supplier = Self /\ fres'.deal.buyer = fcall.addr]_vars
    /\ [][(fpc = "list" /\ fpc' = "info")
          => fcall'.ids = GetOpenedDeal(Self, fcall.addr)]_vars
    /\ [][\A fail \in BOOLEAN :
             (findDealOnce_Info(fail) /\ fpc' # "done")
             => /\ fcall'.ids = Tail(fcall.ids)
                /\ \/ fail
                   \/ deals[Head(fcall.ids)].status # "PENDING"
                   \/ deals[Head(fcall.ids)].hash # fcall.hash]_vars

\* A deal is returned by a tick's probe that skipped an earlier candidate whose
\* info could not be fetched.
C11_Witness ==
    /\ fpc = "done" /\ fres.deal # NoDeal
    /\ fcall.ticks >= 1 /\ fcall.lastFailed
    /\ Len(GetOpenedDeal(Self, fcall.addr)) = 2
    /\ GetOpenedDeal(Self, fcall.addr)[2] = fres.deal.id

\* C12: a failure of the opened-deals query or of a deal-info fetch during a
\* probe never ends WaitForDealCreated: the failed list query sends the call
\* to its select, the failed fetch to the next candidate or to the select, no
\* ledger error is ever returned, and a candidate whose info is fetched and
\* matches is returned, also by a probe that follows a failed one.
C12_ProbeFailureTolerated ==
    /\ [](fpc = "done" => fres.err # "LedgerError")
    /\ [][\A fail \in BOOLEAN :
             /\ (findDealOnce_List(fail) /\ fail)
                => (fpc' = "select" /\ fres' = NoRes /\ fcall'.lastFailed)
             /\ (findDealOnce_Info(fail) /\ fail)
                => /\ fpc' = (IF Tail(fcall.ids) = << >> THEN "select" ELSE "info")
                   /\ fres' = NoRes /\ fcall'.lastFailed
             /\ (findDealOnce_Info(fail) /\ ~fail
                 /\ Matches(deals[Head(fcall.ids)], fcall.hash))
                => /\ fpc' = "done" /\ fres'.err = "nil"
                   /\ fres'.deal = deals[Head(fcall.ids)]]_vars

\* The first probe failed although a match was listed, and a later tick's
\* probe returned the deal.
C12_Witness ==
    /\ fpc = "done" /\ fres.err = "nil" /\ fres.deal # NoDeal
    /\ fcall.matchAtCall # {} /\ ~fcall.probe0Ok
    /\ fcall.ticks >= 1 /\ ~fcall.lastFailed

\* C13 as stated: when the deadline is reached without a match and the last
\* probe before it failed with a ledger error, WaitForDealCreated returns that
\* ledger error.
C13_Original ==
    (fpc = "done" /\ fres.deal = NoDeal /\ ~cancelled /\ fcall.lastFailed)
    => fres.err = "LedgerError"

\* C13: when the deadline is reached without a match and the last probe before
\* it failed with a ledger error, WaitForDealCreated returns the deadline error
\* of its context; the ledger error is not returned.
C13_DeadlineErrorAfterFailedProbe ==
    (fpc = "done" /\ fres.deal = NoDeal /\ fcall.lastFailed)
    => /\ fres.err \in {"DeadlineExceeded", "Canceled"}
       /\ ~cancelled => fres.err = "DeadlineExceeded"

\* A call whose last probe was a tick's probe that failed has ended at its deadline.
C13_Witness ==
    /\ fpc = "done" /\ fres.deal = NoDeal /\ fres.err = "DeadlineExceeded"
    /\ fcall.lastFailed /\ fcall.ticks >= 1 /\ ~cancelled

\* e.ctx was cancelled before the deadline of the pending call, or before the call.
CancelledFirst == IF fpc = "idle" THEN cancelled ELSE Finding /\ fctxErr = "Canceled"

\* C14 as stated: if e.ctx is cancelled before the deadline and before a match
\* is returned, or is already cancelled at the call, WaitForDealCreated fails
\* with the cancelled error and returns no deal.
C14_Original ==
    [][(CancelledFirst /\ fpc' = "done")
       => (fres'.err = "Canceled" /\ fres'.deal = NoDeal)]_vars

\* C14: if e.ctx is cancelled before the deadline and before a match is
\* returned, or is already cancelled at the call, the context of the call is
\* cancelled with it and stays so, the clock does not advance while the call
\* is at its select, and the call never returns the timeout error: it returns
\* the cancelled error and no deal from its select, unless a probe under way
\* at the cancellation or made after it (the immediate probe, or a tick the
\* select takes while cancellation is ready too) fetches a match, which is
\* then returned.
C14_DiscoveryCancellation ==
    /\ []((Finding /\ cancelled /\ fctxErr # "DeadlineExceeded")
          => fctxErr = "Canceled")
    /\ [][(CancelledFirst /\ Finding) => (Finding' => fctxErr' = "Canceled")]_vars
    /\ [][(CancelledFirst /\ fpc' = "done")
          => \/ fpc = "select" /\ fres'.err = "Canceled" /\ fres'.deal = NoDeal
             \/ /\ fpc = "info" /\ fres'.err = "nil"
                /\ fres'.deal.status = "PENDING" /\ fres'.deal.hash = fcall.hash]_vars
    /\ [][(CancelledFirst /\ fpc = "select") => now' = now]_vars

\* A call cancelled while it waited after a tick has returned the cancelled error.
C14_Witness ==
    /\ fpc = "done" /\ fres.err = "Canceled" /\ fres.deal = NoDeal
    /\ fcall.ticks >= 1 /\ cancelled

\* C15 as stated (for the loop of findDeals): once the cancellation or the
\* deadline of the call has fired, the select takes that branch and no further
\* probe of the ledger is made, even when a tick is pending too.
C15_Original ==
    [][(fpc = "select" /\ (fctxErr # "nil" \/ now >= ctxDeadline(fstart, timeout)))
       => fcall'.ticks = fcall.ticks]_vars

\* C16: when ctx is cancelled while WaitForDealClosed waits between two ticks,
\* the call returns the cancelled error at that very instant, before the next
\* tick and without another ledger query.
C16_PromptCancellation ==
    /\ [][(wpc = "select" /\ wctxErr # "nil" /\ now < wtick)
          => /\ now' = now
             /\ wcall' = wcall
             /\ \/ wpc' = "select"
                \/ wpc' = "done" /\ wres' = [err |-> "Canceled", at |-> now]]_vars
    /\ (wpc = "select" /\ wctxErr # "nil" /\ now < wtick) ~> (wpc = "done")

\* A call cancelled strictly between its first and its second tick has returned.
C16_Witness ==
    /\ wpc = "done" /\ wres.err = "Canceled"
    /\ wcall.ticks = 1
    /\ wres.at > wcall.start + ClosedTick
    /\ wres.at < wcall.start + 2 * ClosedTick

\* The deal the pending call watches is listed for the pair and can be seen closed.
TargetClosed ==
    \E k \in 1..Len(GetClosedDeal(Self, wcall.buyer)) :
        IsClosedDeal(deals[GetClosedDeal(Self, wcall.buyer)[k]], wcall.dealID)

\* C17: WaitForDealClosed returns success only if a poll's closed list held an
\* id whose info has the id dealId and status CLOSED; a poll whose list query
\* succeeds but shows no such entry neither succeeds nor fails, and the call
\* waits for the next tick.
C17_SuccessSoundness ==
    /\ []((wpc = "done" /\ wres.err = "nil")
          => /\ wcall.ticks >= 1
             /\ \E i \in DealIds :
                   /\ FormatId(i) = wcall.dealID
                   /\ deals[i].status = "CLOSED"
                   /\ deals[i].supplier = Self /\ deals[i].buyer = wcall.buyer)
    /\ [][(wpc # "done" /\ wpc' = "done" /\ wres'.err = "nil")
          => /\ wpc = "info"
             /\ IsClosedDeal(deals[Head(wcall.ids)], wcall.dealID)
             /\ deals[Head(wcall.ids)].supplier = Self
             /\ deals[Head(wcall.ids)].buyer = wcall.buyer]_vars
    /\ [][(wpc = "info" /\ wcall'.ids # wcall.ids)
          => \/ /\ IsClosedDeal(deals[Head(wcall.ids)], wcall.dealID)
                /\ wpc' = "done" /\ wres'.err = "nil"
             \/ /\ IsClosedDeal(deals[Head(wcall.ids)], wcall.dealID) => wcall'.infoFailed
                /\ wcall'.ids = Tail(wcall.ids)
                /\ wpc' = (IF Tail(wcall.ids) = << >> THEN "select" ELSE "info")
                /\ wres' = wres /\ wtick' = wtick]_vars

\* Success at the second tick, with another deal listed for the pair as well.
C17_Witness ==
    /\ wpc = "done" /\ wres.err = "nil"
    /\ wcall.ticks = 2
    /\ Len(GetClosedDeal(Self, wcall.buyer)) = 2

\* C18: when GetClosedDeal fails on a tick, WaitForDealClosed returns at once
\* with that error; the query is not retried.
C18_ListErrorFatal ==
    /\ [](/\ wcall.listFailed => (wpc = "done" /\ wres.err = "LedgerError")
          /\ (wpc = "done" /\ wres.err = "LedgerError") => wcall.listFailed)
    /\ [][(wpc = "list" /\ wcall'.listFailed)
          => /\ wpc' = "done"
             /\ wres' = [err |-> "LedgerError", at |-> now]
             /\ wcall'.ticks = wcall.ticks]_vars

\* The list query failed on the second tick, after a first poll without result.
C18_Witness ==
    /\ wpc = "done" /\ wres.err = "LedgerError"
    /\ wcall.listFailed /\ wcall.ticks = 2

\* C19 as stated: when GetDealInfo fails for an id of the closed list,
\* WaitForDealClosed returns at once with that error.
C19_Original ==
    wcall.infoFailed => (wpc = "done" /\ wres.err = "LedgerError")

\* The info GetDeal fetched names this hub as supplier and is ACCEPTED.
OwnedAndAccepted == gcall.fetched /\ gcall.info.supplier = Self /\ gcall.info.status = "ACCEPTED"

\* C20: GetDeal returns a deal exactly when the info it fetched for the id has
\* this hub as supplier and status ACCEPTED, and then returns that info; when
\* the info is fetched but the supplier is another account or the status is not
\* ACCEPTED, it returns the not-found error and no deal.
C20_GetDealPredicate ==
    gcall.id # ""
    => /\ gres.deal # NoDeal <=> OwnedAndAccepted
       /\ OwnedAndAccepted => (gres.deal = gcall.info /\ gres.err = "nil")
       /\ (gcall.fetched /\ ~OwnedAndAccepted)
          => (gres.deal = NoDeal /\ gres.err = "errDealNotFound")

\* GetDeal refused an ACCEPTED deal of another supplier.
C20_Witness ==
    /\ gcall.fetched /\ gcall.info # NoDeal
    /\ gcall.info.status = "ACCEPTED" /\ gcall.info.supplier # Self
    /\ gres = [deal |-> NoDeal, err |-> "errDealNotFound"]

\* The ledgers that differ from the present one at most in the deal under id i.
LedgersVarying(i) == {[deals EXCEPT ![i] = d] : d \in DealsOf(i)}

\* C21: for an id that parses, GetDeal's result is the same not-found error
\* and no deal whether the ledger does not know the id or holds under it a deal
\* that is not ACCEPTED or not supplied by this hub: on any two ledgers that
\* differ only in which of these cases holds the result is the one that the
\* call made.
C21_GetDealIndistinguishable ==
    (gcall.fetched /\ ~OwnedAndAccepted)
    => /\ gres = [deal |-> NoDeal, err |-> "errDealNotFound"]
       /\ \A i \in DealIds, id \in IdStrings :
             (ParseBigInt(id).err = "nil" /\ ParseBigInt(id).n = i)
             => \A dls \in LedgersVarying(i) :
                   ~dealOK(GetDealInfoOn(dls, i)) => getDealOn(dls, id, FALSE) = gres
       /\ getDealOn(deals, "7", FALSE) = gres

\* GetDeal answered not-found for an id the ledger does not know, while the
\* ledger holds another deal that is this hub's but not ACCEPTED.
C21_Witness ==
    /\ gcall.fetched /\ gcall.info = NoDeal
    /\ gres = [deal |-> NoDeal, err |-> "errDealNotFound"]
    /\ \E i \in DealIds : deals[i].supplier = Self /\ deals[i].status = "CLOSED"

\* C22: AcceptDeal with an id that does not parse returns the parse error and
\* does not reach the ledger; with an id that parses it invokes the ledger's
\* accept action once, with the hub's key and that id, and returns the error
\* the ledger answered, nil exactly when the ledger accepted.
C22_AcceptDeal ==
    [][\A id \in IdStrings, fail \in BOOLEAN :
          AcceptDeal(id, fail)
          => IF ParseBigInt(id).err # "nil"
             THEN ares' = "ParseError" /\ accepts' = accepts /\ deals' = deals
             ELSE /\ Len(accepts') = Len(accepts) + 1
                  /\ SubSeq(accepts', 1, Len(accepts)) = accepts
                  /\ accepts'[Len(accepts')].key = Key
                  /\ accepts'[Len(accepts')].id = ParseBigInt(id).n
                  /\ ares' = accepts'[Len(accepts')].err
                  /\ (ares' = "nil") <=> (deals' # deals)]_vars

\* Two calls reached the ledger: it accepted the first and refused the second,
\* and the caller got the refusal.
C22_Witness ==
    /\ Len(accepts) = 2
    /\ accepts[1].err = "nil" /\ accepts[2].err = "LedgerError"
    /\ ares = "LedgerError"

\* C23: WaitForDealCreated, WaitForDealClosed and GetDeal only query the
\* ledger: no step of theirs, on any path, invokes the ledger's accept action
\* or changes a deal; only AcceptDeal reaches the accept action.
C23_ReadOnlyTowardLedger ==
    [][QueryStep => (deals' = deals /\ order' = order /\ accepts' = accepts)]_vars

\* WaitForDealCreated has returned a deal, which is still PENDING, and the
\* ledger has seen no accept action.
C23_Witness ==
    /\ fpc = "done" /\ fres.deal # NoDeal /\ fcall.ticks >= 1
    /\ deals[fres.deal.id] = fres.deal
    /\ accepts = << >>

\* C24: a sweep whose cutoff is the instant it started minus NodeTTL deletes
\* exactly the entries whose last-seen is strictly before the cutoff and
\* leaves every other entry, one with last-seen equal to the cutoff included,
\* as it was; in whatever order the map is ranged over every entry is visited
\* once, and the counters satisfy total = keep + del.
C24_SweepExactness ==
    [][/\ (jpc = "wait" /\ jpc' = "clean") => deadline' = now - NodeTTL
       /\ (jpc = "clean" /\ jpc' = "wait")
             => /\ DOMAIN db' = {a \in DOMAIN db : ~(db[a].ts < deadline)}
                /\ \A a \in DOMAIN db' : db'[a] = db[a]
                /\ \A keys \in RangeOrders(db) :
                      LET r == traverseAndClean(db, keys, deadline) IN
                      /\ r.db = db'
                      /\ r.total = Cardinality(DOMAIN db)
                      /\ r.del = Cardinality(DOMAIN db \ DOMAIN db')
                      /\ r.keep = Cardinality(DOMAIN db')
                      /\ r.total = r.keep + r.del]_vars

\* A sweep has just kept a record whose last-seen equals its cutoff and deleted
\* one that was older.
C24_Witness ==
    /\ last.op = "Sweep"
    /\ \E a \in DOMAIN db : db[a].ts = swept
    /\ \E b \in Addrs \ DOMAIN db :
          /\ annTs[b] < swept
          /\ annTs[b] >= swept - CleanupPeriod
          /\ annTs[b] >= 0

\* C25: in every reachable state each stored record's identity field equals
\* its map key, so no two records carry the same identity; and whenever an
\* Announce stores its record, in the order in which the Announces took the
\* lock, the last-seen it stores is not before the last-seen stored by the
\* previous Announce of that identity, however the handlers interleave.
C25_DirectoryInvariant ==
    /\ [](/\ \A a \in DOMAIN db : db[a].ethAddr = a
          /\ \A a, b \in DOMAIN db : db[a].ethAddr = db[b].ethAddr => a = b)
    /\ [][(mx \in Announcers /\ mx' = "free")
          => LET a == loc[mx].n.ethAddr IN
             /\ a \in DOMAIN db'
             /\ db'[a].ts >= annTs[a]
             /\ (a \in DOMAIN db => db'[a].ts >= db[a].ts)]_vars

\* The record of "0xa1" that a Resolve found came from A1; A2 has since
\* replaced it, at a later instant, while A1 holds the lock for another Announce.
C25_Witness ==
    /\ Has(db, "0xa1") /\ Has(db, "0xa2")
    /\ db["0xa1"].ipAddr = <<"ip2">>
    /\ db["0xa1"].ts > 0
    /\ pc["R"] = "idle" /\ loc["R"].err = "nil" /\ loc["R"].seen = <<"ip1">>
    /\ pc["A1"] = "cs"

\* C26: at any instant at most one of Announce's write, Resolve's lookup and
\* the janitor's sweep is inside the critical section, and it is the holder of
\* the mutex; a critical section never waits (its step is always enabled) and
\* every one of them releases the mutex, Resolve's not-found path and a sweep
\* over any number of entries included; so whenever a goroutine waits for the
\* mutex some goroutine can move, and no interleaving deadlocks.
C26_LockDiscipline ==
    /\ [](/\ Cardinality({p \in Procs : pc[p] = "cs"}) <= 1
          /\ \A p \in Procs : pc[p] = "cs" <=> mx = p
          /\ \A p \in Procs : pc[p] = "cs" => ENABLED Locked(p)
          /\ (\E p \in Procs : pc[p] = "lock")
                => ENABLED (\E q \in Procs : Lock(q) \/ Locked(q)))
    /\ \A p \in Procs : (mx = p) ~> (mx = "free")

\* The janitor holds the mutex over a map of two entries while an Announce
\* waits for it, after a Resolve that found nothing has released it.
C26_Witness ==
    /\ mx = "J"
    /\ Cardinality(DOMAIN db) = 2
    /\ pc["A1"] = "lock"
    /\ pc["R"] = "idle" /\ loc["R"].err = "errNodeNotFound"

\* C27: a Resolve whose string is no hex address returns the validation error,
\* which differs from the not-found error returned for a well-formed identity
\* that is not on record (an error only well-formed strings ever get), and
\* that call does not take the mutex, wait for it, read the map or change it.
C27_MalformedResolve ==
    /\ [](/\ (pc["R"] = "idle" /\ loc["R"].req # "" /\ ~IsHexAddress(loc["R"].req))
                => /\ loc["R"].err = "invalid ethaddress"
                   /\ loc["R"].err # "errNodeNotFound"
                   /\ loc["R"].err # "nil"
          /\ loc["R"].err = "errNodeNotFound" => IsHexAddress(loc["R"].req)
          /\ pc["R"] # "idle" => IsHexAddress(loc["R"].req))
    /\ [][(pc["R"] = "idle" /\ loc'["R"] # loc["R"] /\ ~IsHexAddress(loc'["R"].req))
          => /\ pc'["R"] = "idle"
             /\ mx' = mx
             /\ db' = db
             /\ loc'["R"].n = NoNode /\ loc'["R"].seen = << >> /\ loc'["R"].out = << >>]_vars

\* A Resolve of "xyz" has returned while the record of "0xa1" is on the map
\* and an Announce holds the mutex.
C27_Witness ==
    /\ pc["R"] = "idle"
    /\ loc["R"].req = "xyz"
    /\ loc["R"].err = "invalid ethaddress"
    /\ Has(db, "0xa1")
    /\ mx = "A2"

\* C28: no step of Resolve adds, removes or alters a record or refreshes a
\* last-seen; a record on the map changes only by an Announce that replaces it
\* whole with the node it allocated, or by the sweep that deletes it; and the
\* list Resolve returns, read after the mutex is released, is exactly the list
\* of the one Announce that was on record at the lookup, whatever Announce or
\* sweep ran in between.
C28_ResolveSnapshot ==
    /\ [][/\ (pc'["R"] # pc["R"] \/ loc'["R"].out # loc["R"].out \/ loc'["R"].n # loc["R"].n
                \/ loc'["R"].req # loc["R"].req \/ loc'["R"].err # loc["R"].err)
              => (db' = db /\ annTs' = annTs /\ annIps' = annIps)
          /\ \A a \in DOMAIN db :
                \/ a \in DOMAIN db' /\ db'[a] = db[a]
                \/ /\ mx \in Announcers /\ loc[mx].n.ethAddr = a
                   /\ a \in DOMAIN db'
                   /\ db'[a] = [ethAddr |-> a, ipAddr |-> IpOf[mx], ts |-> now]
                \/ /\ mx = "J" /\ a \notin DOMAIN db']_vars
    /\ [](/\ pc["R"] = "read" => loc["R"].n.ipAddr = loc["R"].seen
          /\ (pc["R"] = "idle" /\ loc["R"].req # "" /\ loc["R"].err = "nil")
                => /\ loc["R"].out = loc["R"].seen
                   /\ \E p \in Announcers : loc["R"].out = IpOf[p])

\* Resolve has returned the list A1 announced although A2 replaced the record
\* between its lookup and its reply.
C28_Witness ==
    /\ pc["R"] = "idle" /\ loc["R"].req = "0xa1" /\ loc["R"].err = "nil"
    /\ loc["R"].out = <<"ip1">>
    /\ "0xa1" \in loc["R"].since
    /\ Has(db, "0xa1") /\ db["0xa1"].ipAddr = <<"ip2">>

\* C29: with NodeTTL >= 0, a sweep does not delete the record of an identity
\* whose Announce took the mutex after that sweep computed its cutoff: when the
\* sweep's critical section runs, every such record stays on the map as it
\* was, so a Resolve of it right after the sweep finds it.
C29_AnnounceSweepRace ==
    /\ [](NodeTTL >= 0)
    /\ [][(pc["J"] = "cs" /\ pc'["J"] = "idle")
          => \A a \in loc["J"].since :
                /\ a \in DOMAIN db
                /\ a \in DOMAIN db'
                /\ db'[a] = db[a]
                /\ db[a].ts >= loc["J"].deadline
                /\ getResolve(db', a).err = "nil"
                /\ getResolve(db', a).n.ipAddr = annIps[a]]_vars
    /\ [](Sweeping => loc["J"].deadline <= now - NodeTTL)

\* A sweep has deleted the record of "0xa2" and kept that of "0xa1", announced
\* between the sweep's cutoff computation and its critical section.
C29_Witness ==
    /\ pc["J"] = "idle"
    /\ "0xa1" \in loc["J"].since
    /\ Has(db, "0xa1")
    /\ ~Has(db, "0xa2") /\ annTs["0xa2"] >= 0
    /\ "0xa2" \notin loc["J"].since

\* C30: WaitForDealClosed queries the ledger only on a tick, and its first
\* tick comes one poll interval after the call: the call itself makes no query
\* and does not return, even when the deal is already CLOSED; no query is made
\* and no success returned before one full poll interval has elapsed; and a
\* call that returns the cancelled error before its first tick has made no
\* ledger query.
C30_NoImmediateProbe ==
    /\ [](/\ (wpc # "idle" /\ wcall.ticks >= 1) => now >= wcall.start + ClosedTick
          /\ wpc \in {"list", "info"} => wcall.ticks >= 1
          /\ (wpc = "select" /\ wcall.ticks = 0) => wtick = wcall.start + ClosedTick
          /\ (wpc = "done" /\ wres.err = "nil")
                => (wcall.ticks >= 1 /\ wres.at >= wcall.start + ClosedTick)
          /\ (wpc = "done" /\ wres.err = "Canceled" /\ wres.at < wcall.start + ClosedTick)
                => (wcall.ticks = 0 /\ ~wcall.listFailed /\ ~wcall.infoFailed))
    /\ [][(wpc = "idle" /\ wpc' # "idle")
          => /\ wpc' = "select"
             /\ wcall'.ticks = 0
             /\ wres' = wres
             /\ wcall'.start = now]_vars
    /\ [][(wpc = "select" /\ wcall.ticks = 0 /\ now < wtick)
          => /\ wcall'.ticks = 0
             /\ wpc' = "done" => wres'.err = "Canceled"]_vars

\* The call has just been made for a deal that is already CLOSED and listed,
\* and it waits in its select without having queried the ledger.
C30_Witness ==
    /\ wpc = "select"
    /\ wcall.ticks = 0
    /\ now = wcall.start
    /\ wctxErr = "nil"
    /\ TargetClosed

\* A call made for a deal already CLOSED has been cancelled before its first tick.
C30_WitnessCancelled ==
    /\ wpc = "done" /\ wres.err = "Canceled"
    /\ wres.at > wcall.start /\ wres.at < wcall.start + ClosedTick
    /\ wcall.ticks = 0
    /\ TargetClosed

\* The pending call's deal is listed closed, its ctx is not cancelled and its
\* latest poll met no failing ledger query.
ClosedAndHealthy ==
    /\ TargetClosed
    /\ wctxErr = "nil"
    /\ ~wcall.listFailed /\ ~wcall.infoFailed

\* C31: WaitForDealClosed returns only with success, with the error of a
\* failed closed-deals query, or with the error of its cancelled ctx; no step
\* makes it return for having waited long, and it may wait through the whole
\* horizon.  And once the closed list holds the requested id with status
\* CLOSED, the ledger's queries succeed and ctx is not cancelled, the call
\* returns success, given that ticks keep coming (the next one within the
\* horizon of the clock).
C31_TrackerExits ==
    /\ [](wpc = "done"
          => \/ wres.err = "nil" /\ wcall.ticks >= 1
             \/ wres.err = "LedgerError" /\ wcall.listFailed
             \/ wres.err = "Canceled" /\ wctxErr = "Canceled")
    /\ [][(wpc # "done" /\ wpc' = "done")
          => \/ wpc = "select" /\ wctxErr # "nil" /\ wres'.err = wctxErr /\ wcall' = wcall
             \/ wpc = "list" /\ wres'.err = "LedgerError" /\ wcall'.listFailed
             \/ /\ wpc = "info" /\ wres'.err = "nil"
                /\ IsClosedDeal(deals[Head(wcall.ids)], wcall.dealID)]_vars
    /\ [][(wpc = "select" /\ wctxErr = "nil" /\ now < wtick) => wpc' = "select"]_vars
    /\ (wpc = "select" /\ wtick <= MaxTrackTime /\ ClosedAndHealthy)
          ~> ((wpc = "done" /\ wres.err = "nil") \/ ~ClosedAndHealthy)

\* The call returned success at its second tick, uncancelled, after a first
\* poll that did not show the deal closed.
C31_Witness ==
    /\ wpc = "done" /\ wres.err = "nil"
    /\ wres.at = wcall.start + 2 * ClosedTick
    /\ wctxErr = "nil"
    /\ ~wcall.infoFailed

\* The call is still pending at the horizon, after two polls without result.
C31_WitnessPending ==
    /\ wpc = "select" /\ wctxErr = "nil"
    /\ wcall.ticks = 2 /\ now = MaxTrackTime

====
